---- MODULE Spec2Model ----
(***************************************************************************)
(* Model of metadata.py: the brace matcher (extract_class_body), the type  *)
(* registry (parse_all_classes), the sample value generator                *)
(* (generate_sample_value), the config synthesizer                         *)
(* (generate_sample_config) and the selection of the main config class.    *)
(*                                                                         *)
(* Python strings are sequences of one-character strings, with Python's    *)
(* 0-based indices kept in the variables and converted where a sequence    *)
(* is indexed.                                                             *)
(***************************************************************************)
EXTENDS Integers, Sequences, FiniteSets, TLC

VARIABLES
    \* extract_class_body
    content, start_index, brace_count, index, bpc, body, end_index,
    \* parse_all_classes / __main__
    pc, class_defs, last_decl, overwritten, supported_types, main_config_class,
    type_name, config,
    \* generate_sample_value
    root, stack, processed_classes, ret, error

braceVars == <<content, start_index, brace_count, index, bpc, body, end_index>>
mainVars  == <<pc, class_defs, last_decl, overwritten, supported_types,
               main_config_class, type_name, config>>
genVars   == <<root, stack, processed_classes, ret, error>>
vars      == <<braceVars, mainVars, genVars>>
\* what generate_sample_value leaves alone
otherVars == <<braceVars, class_defs, last_decl, overwritten, supported_types,
               main_config_class, type_name, config>>

----------------------------------------------------------------------------
(* Bounds of the model *)

\* longest text buffer given to extract_class_body
MaxLen == 7
\* most properties a class declaration has
MaxProps == 2
\* deepest recursion the interpreter allows before it raises RecursionError
RecursionLimit == 8

----------------------------------------------------------------------------
(* Python string operations *)

Min(a, b) == IF a < b THEN a ELSE b
Max(a, b) == IF a > b THEN a ELSE b

\* s[a:b] with Python's clamping and negative indices (0-based, b exclusive)
PySlice(s, a, b) ==
    LET n  == Len(s)
        lo == IF a < 0 THEN Max(n + a, 0) ELSE Min(a, n)
        hi == IF b < 0 THEN Max(n + b, 0) ELSE Min(b, n)
    IN  SubSeq(s, lo + 1, hi)

\* s.startswith(p)
StartsWith(s, p) == Len(s) >= Len(p) /\ SubSeq(s, 1, Len(p)) = p

\* s.endswith(p)
EndsWith(s, p) == Len(s) >= Len(p) /\ SubSeq(s, Len(s) - Len(p) + 1, Len(s)) = p

\* The scanning operations are functions of the string: a function is
\* applied to the value of its argument.

Str == Seq(STRING)

\* s.find(c): 0-based index of the first c, -1 when there is none
FindF[s \in Str, c \in STRING] ==
    IF \E i \in 1..Len(s) : s[i] = c
    THEN (CHOOSE i \in 1..Len(s) : s[i] = c /\ \A j \in 1..(i - 1) : s[j] # c) - 1
    ELSE -1

Find(s, c) == FindF[s, c]

\* s.lstrip(c)
LStripF[s \in Str, c \in STRING] ==
    IF s # <<>> /\ Head(s) = c THEN LStripF[Tail(s), c] ELSE s

\* s.rstrip(c)
RStripF[s \in Str, c \in STRING] ==
    IF s # <<>> /\ s[Len(s)] = c THEN RStripF[SubSeq(s, 1, Len(s) - 1), c] ELSE s

RStripChar(s, c) == RStripF[s, c]

\* s.strip(): leading and trailing blanks removed
Strip(s) == RStripF[LStripF[s, " "], " "]

\* s.split(c): the pieces of s between the occurrences of c
SplitF[s \in Str, c \in STRING] ==
    IF FindF[s, c] < 0 THEN <<s>>
    ELSE <<SubSeq(s, 1, FindF[s, c])>> \o SplitF[SubSeq(s, FindF[s, c] + 2, Len(s)), c]

Split(s, c) == SplitF[s, c]

----------------------------------------------------------------------------
(* extract_class_body(content, start_index) *)

Chars == {"{", "}", "a"}

Buffers == UNION {[1..n -> Chars] : n \in 0..MaxLen}

\* the caller passes class_match.end(): the index just after the "{" the
\* class pattern ends with
InitBrace ==
    /\ content \in Buffers
    /\ start_index \in 1..Len(content)
    /\ content[start_index] = "{"
    /\ brace_count = 1
    /\ index = start_index
    /\ bpc = "loop"
    /\ body = <<>>
    /\ end_index = 0

\* one iteration of the while loop
ScanStep ==
    /\ bpc = "loop"
    /\ brace_count > 0 /\ index < Len(content)
    /\ brace_count' = IF content[index + 1] = "{" THEN brace_count + 1
                      ELSE IF content[index + 1] = "}" THEN brace_count - 1
                      ELSE brace_count
    /\ index' = index + 1
    /\ UNCHANGED <<content, start_index, bpc, body, end_index, mainVars, genVars>>

\* a slice that runs up to and including the character the scan stopped after
BodyEndInclusive(i) == i

\* the end of the returned slice
BodyEnd(i) == i - 1

\* the index after the last character scanned
IndexAfterScan(i) == i

\* the index returned with the body
ReturnedIndex(i) == i - 1

\* the loop condition fails: return content[start_index:index - 1], index - 1
ScanReturn ==
    /\ bpc = "loop"
    /\ ~(brace_count > 0 /\ index < Len(content))
    /\ body' = PySlice(content, start_index, BodyEnd(index))
    /\ end_index' = ReturnedIndex(index)
    /\ bpc' = "done"
    /\ UNCHANGED <<content, start_index, brace_count, index, mainVars, genVars>>

----------------------------------------------------------------------------
(* Type expressions and names, as the strings the code handles *)

S_int == <<"i", "n", "t">>
S_long == <<"l", "o", "n", "g">>
S_float == <<"f", "l", "o", "a", "t">>
S_double == <<"d", "o", "u", "b", "l", "e">>
S_decimal == <<"d", "e", "c", "i", "m", "a", "l">>
S_string == <<"s", "t", "r", "i", "n", "g">>
S_bool == <<"b", "o", "o", "l">>
S_DateTime == <<"D", "a", "t", "e", "T", "i", "m", "e">>
S_ListPrefix == <<"L", "i", "s", "t", "<">>
S_IListPrefix == <<"I", "L", "i", "s", "t", "<">>
S_IEnumerablePrefix == <<"I", "E", "n", "u", "m", "e", "r", "a", "b", "l", "e", "<">>
S_ObservableCollectionPrefix == <<"O", "b", "s", "e", "r", "v", "a", "b", "l", "e", "C", "o", "l", "l", "e", "c", "t", "i", "o", "n", "<">>
S_DictionaryPrefix == <<"D", "i", "c", "t", "i", "o", "n", "a", "r", "y", "<">>
S_Config == <<"C", "o", "n", "f", "i", "g">>

\* the type expressions List<t>, Dictionary<k, v>, Dictionary<k> and t?
MkList(t) == S_ListPrefix \o t \o <<">">>
MkDict(k, v) == S_DictionaryPrefix \o k \o <<",", " ">> \o v \o <<">">>
MkDict1(k) == S_DictionaryPrefix \o k \o <<">">>
MkNullable(t) == t \o <<"?">>

----------------------------------------------------------------------------
(* Sample values: scalars, one-element lists, ordered mappings *)

NoValue == [kind |-> "none", lit |-> "", items |-> <<>>]

Scalar(k, l) == [kind |-> k, lit |-> l, items |-> <<>>]

\* a Python list [v]
ListOf(v) == [kind |-> "list", lit |-> "", items |-> <<[key |-> NoValue, val |-> v]>>]

\* a Python dict with the given entries, in insertion order
Mapping(es) == [kind |-> "dict", lit |-> "", items |-> es]

EmptyMapping == Mapping(<<>>)

\* d[k] = v on the entries of a dict: an existing key keeps its place
DictSet(es, k, v) ==
    IF \E i \in 1..Len(es) : es[i].key = k
    THEN [i \in 1..Len(es) |-> IF es[i].key = k THEN [key |-> k, val |-> v] ELSE es[i]]
    ELSE Append(es, [key |-> k, val |-> v])

\* lists and dicts are unhashable: using one as a dict key raises TypeError
Hashable(v) == v.kind \notin {"list", "dict"}

----------------------------------------------------------------------------
(* The Type Registry: a dict from class name to property list, as the      *)
(* sequence of its entries in insertion order                              *)

Keys(defs) == {defs[i].key : i \in 1..Len(defs)}

Get(defs, k) == defs[CHOOSE i \in 1..Len(defs) : defs[i].key = k].val

----------------------------------------------------------------------------
(* generate_sample_value(property_type, class_defs, processed_classes)     *)
(*                                                                         *)
(* The recursion is a stack of frames, the caller below the callee. A      *)
(* frame holds the call's argument and locals and the place it waits at:   *)
(*   "start"      called, body not yet run                                 *)
(*   "list_wait"  in the list branch, waiting for the inner type's sample  *)
(*   "key_wait"   in the Dictionary branch, waiting for key_sample         *)
(*   "value_wait" in the Dictionary branch, waiting for value_sample       *)
(*   "prop_wait"  in the class branch, waiting for property i's sample     *)
(*   "return"     the value to return is computed                          *)
(* An uncaught exception ends the run where it is raised.                  *)

Frame(t) ==
    [arg |-> t, fpc |-> "start", property_type |-> <<>>,
     key_type |-> <<>>, value_type |-> <<>>,
     key_sample |-> NoValue, value_sample |-> NoValue,
     properties |-> <<>>, i |-> 0, sample_obj |-> <<>>, result |-> NoValue]

Top == stack[Len(stack)]

\* property_type.strip().rstrip('?')
Normalize(t) == RStripChar(Strip(t), "?")

NumericTypes == {S_int, S_long, S_float, S_double, S_decimal}

ListPrefixes == {S_ListPrefix, S_IListPrefix, S_IEnumerablePrefix,
                 S_ObservableCollectionPrefix}

IsNumeric(t) == t \in NumericTypes
IsScalarType(t) == IsNumeric(t) \/ t \in {S_string, S_bool, S_DateTime}
IsListType(t) == ~IsScalarType(t) /\ \E p \in ListPrefixes : StartsWith(t, p)
IsDictType(t) == ~IsScalarType(t) /\ ~IsListType(t) /\ StartsWith(t, S_DictionaryPrefix)
IsClassType(t, defs) ==
    ~IsScalarType(t) /\ ~IsListType(t) /\ ~IsDictType(t) /\ t \in Keys(defs)
IsUnknownType(t, defs) ==
    ~IsScalarType(t) /\ ~IsListType(t) /\ ~IsDictType(t) /\ t \notin Keys(defs)

\* the samples of the primitive types
ScalarSample(t) ==
    IF IsNumeric(t) THEN Scalar("int", "0")
    ELSE IF t = S_string THEN Scalar("str", "SampleString")
    ELSE IF t = S_bool THEN Scalar("bool", "True")
    ELSE Scalar("str", "2021-01-01T00:00:00Z")

UnknownSample == Scalar("str", "SampleValue")

\* property_type[property_type.find('<')+1:-1]
InnerType(t) == PySlice(t, Find(t, "<") + 1, -1)

\* property_type[property_type.find('<')+1:-1].split(',')
DictTypes(t) == Split(InnerType(t), ",")

\* what a class already in processed_classes yields
CycleSample == EmptyMapping

\* a guard that never finds the class
NeverProcessed(c, processed) == FALSE

\* property_type in processed_classes
InProcessed(c, processed) == c \in processed

\* processed_classes.add(property_type)
ProcessedAdd(processed, c) == processed \cup {c}

\* a set that keeps the class after its expansion
ProcessedKeep(processed, c) == processed

\* processed_classes.remove(property_type)
ProcessedRemove(processed, c) == processed \ {c}

\* the top frame replaced by f
SetTop(f) == [stack EXCEPT ![Len(stack)] = f]

\* the top frame becomes f and calls generate_sample_value(t, ...): one more
\* frame, or RecursionError when the interpreter's limit is reached
Call(f, t) ==
    IF Len(stack) >= RecursionLimit
    THEN /\ pc' = "raised"
         /\ error' = "RecursionError"
         /\ stack' = stack
    ELSE /\ stack' = Append(SetTop(f), Frame(t))
         /\ UNCHANGED <<pc, error>>

Raise(e) ==
    /\ pc' = "raised"
    /\ error' = e
    /\ stack' = stack

Running == pc = "gen" /\ stack # <<>>

\* The locals of a call are bound with \E over a one-element set: the value
\* is computed once, as the assignment in the code computes it.

\* int, long, float, double, decimal, string, bool, DateTime
GenScalar ==
    /\ Running /\ Top.fpc = "start"
    /\ \E t \in {Normalize(Top.arg)} :
           /\ IsScalarType(t)
           /\ stack' = SetTop([Top EXCEPT !.property_type = t,
                                          !.result = ScalarSample(t),
                                          !.fpc = "return"])
    /\ UNCHANGED <<pc, error, processed_classes, ret, root, otherVars>>

\* List<, IList<, IEnumerable<, ObservableCollection<
GenList ==
    /\ Running /\ Top.fpc = "start"
    /\ \E t \in {Normalize(Top.arg)} :
           /\ IsListType(t)
           /\ \E inner_type \in {InnerType(t)} :
                  Call([Top EXCEPT !.property_type = t, !.fpc = "list_wait"],
                       inner_type)
    /\ UNCHANGED <<processed_classes, ret, root, otherVars>>

\* Dictionary<: types[0] and types[1], then the key's sample
GenDictionary ==
    /\ Running /\ Top.fpc = "start"
    /\ \E t \in {Normalize(Top.arg)} :
           /\ IsDictType(t)
           /\ \E types \in {DictTypes(t)} :
                  IF Len(types) < 2
                  THEN Raise("IndexError")
                  ELSE \E key_type \in {Strip(types[1])}, value_type \in {Strip(types[2])} :
                          Call([Top EXCEPT !.property_type = t,
                                           !.key_type = key_type,
                                           !.value_type = value_type,
                                           !.fpc = "key_wait"],
                               key_type)
    /\ UNCHANGED <<processed_classes, ret, root, otherVars>>

\* a class of class_defs: the cycle guard, then the loop over its properties
GenClass ==
    /\ Running /\ Top.fpc = "start"
    /\ \E t \in {Normalize(Top.arg)} :
           /\ IsClassType(t, class_defs)
           /\ \E props \in {Get(class_defs, t)} :
                  IF InProcessed(t, processed_classes)
                  THEN /\ stack' = SetTop([Top EXCEPT !.property_type = t,
                                                      !.result = CycleSample,
                                                      !.fpc = "return"])
                       /\ UNCHANGED <<pc, error, processed_classes>>
                  ELSE IF props = <<>>
                  THEN /\ stack' = SetTop([Top EXCEPT !.property_type = t,
                                                      !.properties = props,
                                                      !.result = Mapping(<<>>),
                                                      !.fpc = "return"])
                       /\ processed_classes' =
                              ProcessedRemove(ProcessedAdd(processed_classes, t), t)
                       /\ UNCHANGED <<pc, error>>
                  ELSE /\ Call([Top EXCEPT !.property_type = t,
                                           !.properties = props,
                                           !.i = 1,
                                           !.fpc = "prop_wait"],
                               props[1].property_type)
                       /\ processed_classes' = ProcessedAdd(processed_classes, t)
    /\ UNCHANGED <<ret, root, otherVars>>

\* the else branch: a type that is none of the above
GenUnknown ==
    /\ Running /\ Top.fpc = "start"
    /\ \E t \in {Normalize(Top.arg)} :
           /\ IsUnknownType(t, class_defs)
           /\ stack' = SetTop([Top EXCEPT !.property_type = t,
                                          !.result = UnknownSample,
                                          !.fpc = "return"])
    /\ UNCHANGED <<pc, error, processed_classes, ret, root, otherVars>>

Caller == stack[Len(stack) - 1]

\* the stack without its top frame, the caller's frame replaced by f
PopTo(f) == [SubSeq(stack, 1, Len(stack) - 1) EXCEPT ![Len(stack) - 1] = f]

Returning == Running /\ Len(stack) > 1 /\ Top.fpc = "return"

\* return [generate_sample_value(inner_type, ...)]
ReturnToList ==
    /\ Returning /\ Caller.fpc = "list_wait"
    /\ stack' = PopTo([Caller EXCEPT !.result = ListOf(Top.result),
                                     !.fpc = "return"])
    /\ UNCHANGED <<pc, error, processed_classes, ret, root, otherVars>>

\* key_sample is back: call for value_sample
ReturnKey ==
    /\ Returning /\ Caller.fpc = "key_wait"
    /\ LET f == [Caller EXCEPT !.key_sample = Top.result, !.fpc = "value_wait"]
       IN  stack' = Append(PopTo(f), Frame(f.value_type))
    /\ UNCHANGED <<pc, error, processed_classes, ret, root, otherVars>>

\* value_sample is back: return { key_sample: value_sample }
ReturnValue ==
    /\ Returning /\ Caller.fpc = "value_wait"
    /\ LET f == [Caller EXCEPT !.value_sample = Top.result]
       IN  IF ~Hashable(f.key_sample)
           THEN Raise("TypeError")
           ELSE /\ stack' = PopTo([f EXCEPT
                        !.result = Mapping(<<[key |-> f.key_sample,
                                              val |-> f.value_sample]>>),
                        !.fpc = "return"])
                /\ UNCHANGED <<pc, error>>
    /\ UNCHANGED <<processed_classes, ret, root, otherVars>>

\* sample_obj[prop_name] = the sample; the next property, or remove the
\* class from processed_classes and return sample_obj
ReturnProp ==
    /\ Returning /\ Caller.fpc = "prop_wait"
    /\ LET prop == Caller.properties[Caller.i]
           obj  == DictSet(Caller.sample_obj,
                           Scalar("str", prop.json_property_name), Top.result)
       IN  IF Caller.i < Len(Caller.properties)
           THEN /\ stack' = Append(
                       PopTo([Caller EXCEPT !.sample_obj = obj, !.i = @ + 1]),
                       Frame(Caller.properties[Caller.i + 1].property_type))
                /\ UNCHANGED <<pc, error, processed_classes>>
           ELSE /\ stack' = PopTo([Caller EXCEPT !.sample_obj = obj,
                                                 !.result = Mapping(obj),
                                                 !.fpc = "return"])
                /\ processed_classes' =
                       ProcessedRemove(processed_classes, Caller.property_type)
                /\ UNCHANGED <<pc, error>>
    /\ UNCHANGED <<ret, root, otherVars>>

\* the outermost call returns to a direct caller
ReturnToTop ==
    /\ Running /\ Len(stack) = 1 /\ Top.fpc = "return"
    /\ main_config_class = <<>>
    /\ ret' = Top.result
    /\ stack' = <<>>
    /\ pc' = "done"
    /\ UNCHANGED <<error, processed_classes, root, otherVars>>

----------------------------------------------------------------------------
(* Inputs of the sample value generator *)

ClassA == <<"A">>
ClassB == <<"B">>
S_Unknown == <<"X">>

PropertyNames == <<"p1", "p2", "p3", "p4">>

Prop(name, type) ==
    [json_property_name |-> name, property_name |-> name, property_type |-> type]

\* the property lists of at most MaxProps properties with types from `types`
PropLists(types) ==
    UNION {{[i \in 1..n |-> Prop(PropertyNames[i], f[i])] : f \in [1..n -> types]}
           : n \in 0..MaxProps}

\* a scalar, a direct reference (B to itself, A to B) and a reference through
\* a collection (B back to A, A to itself)
GenPropTypes == {S_string, ClassB, MkList(ClassA)}

GenRegistries ==
    {<<[key |-> ClassA, val |-> pa], [key |-> ClassB, val |-> pb]>> :
        pa \in PropLists(GenPropTypes), pb \in PropLists(GenPropTypes)}

\* the key and value type expressions of the Dictionary types tried
KeyTypes == {S_string, MkList(S_int)}
ValueTypes == {S_int, ClassB, MkList(S_int), MkDict(S_string, S_int)}

RootTypes ==
    {ClassA, ClassB, MkNullable(ClassA), MkList(ClassA), S_Unknown, S_bool,
     MkDict1(S_string), MkDict(ClassA, S_int)}
    \cup {MkDict(k, v) : k \in KeyTypes, v \in ValueTypes}

BraceIdle ==
    /\ content = <<>> /\ start_index = 0 /\ brace_count = 0 /\ index = 0
    /\ bpc = "idle" /\ body = <<>> /\ end_index = 0

GenIdle ==
    /\ root = <<>> /\ stack = <<>> /\ processed_classes = {}
    /\ ret = NoValue /\ error = ""

MainIdle ==
    /\ last_decl = <<>> /\ overwritten = <<>> /\ supported_types = <<>>
    /\ main_config_class = <<>> /\ type_name = <<>> /\ config = <<>>

InitGen ==
    /\ BraceIdle
    /\ MainIdle
    /\ GenIdle
    /\ pc = "idle"
    /\ class_defs = <<>>

\* a direct call generate_sample_value(root, class_defs), processed_classes
\* defaulting to a new empty set
GenInvoke ==
    /\ pc = "idle"
    /\ class_defs' \in GenRegistries
    /\ root' \in RootTypes
    /\ stack' = <<Frame(root')>>
    /\ processed_classes' = {}
    /\ pc' = "gen"
    /\ UNCHANGED <<ret, error, braceVars, last_decl, overwritten, supported_types,
                   main_config_class, type_name, config>>

NextGen ==
    \/ GenInvoke
    \/ GenScalar
    \/ GenList
    \/ GenDictionary
    \/ GenClass
    \/ GenUnknown
    \/ ReturnToList
    \/ ReturnKey
    \/ ReturnValue
    \/ ReturnProp
    \/ ReturnToTop

SpecGen == InitGen /\ [][NextGen]_vars

\* the interpreter keeps running the call until it returns or raises
FairSpecGen == SpecGen /\ WF_vars(NextGen)

InitBraceSpec ==
    /\ InitBrace
    /\ MainIdle
    /\ GenIdle
    /\ pc = "brace"
    /\ class_defs = <<>>

NextBrace ==
    \/ ScanStep
    \/ ScanReturn

SpecBrace == InitBraceSpec /\ [][NextBrace]_vars

----------------------------------------------------------------------------
(* parse_all_classes and __main__: the registry is built from the class     *)
(* declarations found, the main config class is chosen, and                *)
(* generate_sample_config wraps its sample.                                *)

AConfig == <<"A">> \o S_Config
BConfig == <<"B">> \o S_Config
Dev == <<"D", "e", "v">>

MainClassNames == {AConfig, BConfig, Dev}

\* the properties a declaration may have, in declaration order
MainPropPool ==
    <<[json_property_name |-> "items", property_name |-> "Items",
       property_type |-> MkList(Dev)],
      [json_property_name |-> "Map", property_name |-> "Map",
       property_type |-> MkDict(S_string, S_int)],
      [json_property_name |-> "name", property_name |-> "Name",
       property_type |-> S_string],
      [json_property_name |-> "Count", property_name |-> "Count",
       property_type |-> MkNullable(S_int)]>>

MainPropLists == {SubSeq(MainPropPool, 1, n) : n \in 0..Min(MaxProps, Len(MainPropPool))}

\* results["supported_types"]
SupportedPool == {<<>>, <<<<"A">>>>, <<<<"X">>>>, <<<<"X">>, <<"B">>>>}

Init ==
    /\ BraceIdle
    /\ GenIdle
    /\ pc = "parse"
    /\ class_defs = <<>>
    /\ last_decl = [n \in MainClassNames |-> <<>>]
    /\ overwritten = <<>>
    /\ supported_types \in SupportedPool
    /\ main_config_class = <<>>
    /\ type_name = <<>>
    /\ config = <<>>

\* a registry that adds a later declaration's properties to the earlier ones
RegistryMerge(defs, class_name, properties) ==
    DictSet(defs, class_name,
            IF class_name \in Keys(defs) THEN Get(defs, class_name) \o properties
            ELSE properties)

\* class_defs[class_name] = properties
RegistrySet(defs, class_name, properties) == DictSet(defs, class_name, properties)

\* one class declaration found by class_pattern, its properties extracted
\* from the class body: last_decl and overwritten record what was declared
ParseDecl ==
    /\ pc = "parse"
    /\ \E class_name \in MainClassNames, properties \in MainPropLists :
          /\ class_defs' = RegistrySet(class_defs, class_name, properties)
          /\ last_decl' = [last_decl EXCEPT ![class_name] = <<properties>>]
          /\ overwritten' =
                 IF class_name \in Keys(class_defs)
                 THEN <<[name |-> class_name, old |-> Get(class_defs, class_name)]>>
                 ELSE <<>>
    /\ UNCHANGED <<pc, supported_types, main_config_class, type_name, config,
                   braceVars, genVars>>

\* [cls for cls in class_defs if cls.endswith('Config')]
RECURSIVE ConfigClasses(_)
ConfigClasses(defs) ==
    IF defs = <<>> THEN <<>>
    ELSE (IF EndsWith(Head(defs).key, S_Config) THEN <<Head(defs).key>> ELSE <<>>)
         \o ConfigClasses(Tail(defs))

\* a comparison that lets a later equal element win
NotLess(a, b) == a >= b

\* max replaces its candidate only by a strictly greater key
Greater(a, b) == a > b

\* max(config_classes, key=lambda cls: len(class_defs[cls])), scanning from
\* the candidate `best`
RECURSIVE MaxByPropCount(_, _, _)
MaxByPropCount(best, rest, defs) ==
    IF rest = <<>> THEN best
    ELSE MaxByPropCount(
             IF Greater(Len(Get(defs, Head(rest))), Len(Get(defs, best)))
             THEN Head(rest) ELSE best,
             Tail(rest), defs)

\* the directory walk is over: choose the main config class, if any
SelectMain ==
    /\ pc = "parse"
    /\ \E config_classes \in {ConfigClasses(class_defs)} :
          IF config_classes = <<>>
          THEN /\ pc' = "none"
               /\ UNCHANGED main_config_class
          ELSE /\ main_config_class' =
                      MaxByPropCount(Head(config_classes), Tail(config_classes),
                                     class_defs)
               /\ pc' = "config"
    /\ UNCHANGED <<class_defs, last_decl, overwritten, supported_types, type_name,
                   config, braceVars, genVars>>

Range(seq) == {seq[i] : i \in 1..Len(seq)}

\* a name left as it is
NameUnstripped(config_class_name) == config_class_name

\* config_class_name[:-6]
DerivedName(config_class_name) == PySlice(config_class_name, 0, -6)

\* type_name, after the check against supported_types
ConfigType(config_class_name, supported) ==
    IF DerivedName(config_class_name) \notin Range(supported)
    THEN (IF supported # <<>> THEN supported[1] ELSE DerivedName(config_class_name))
    ELSE DerivedName(config_class_name)

\* generate_sample_config up to its call of generate_sample_value
ConfigCall ==
    /\ pc = "config"
    /\ type_name' = ConfigType(main_config_class, supported_types)
    /\ root' = main_config_class
    /\ stack' = <<Frame(main_config_class)>>
    /\ processed_classes' = {}
    /\ pc' = "gen"
    /\ UNCHANGED <<class_defs, last_decl, overwritten, supported_types,
                   main_config_class, config, ret, error, braceVars>>

\* generate_sample_value returns to generate_sample_config, which returns
\* the envelope
ReturnToConfig ==
    /\ Running /\ Len(stack) = 1 /\ Top.fpc = "return"
    /\ main_config_class # <<>>
    /\ ret' = Top.result
    /\ config' = <<[key |-> "GeneratedKey", uid |-> 1, name |-> "GeneratedName",
                    type |-> type_name, group |-> "Group",
                    properties |-> Top.result]>>
    /\ stack' = <<>>
    /\ pc' = "done"
    /\ UNCHANGED <<class_defs, last_decl, overwritten, supported_types,
                   main_config_class, type_name, error, processed_classes, root,
                   braceVars>>

Next ==
    \/ ParseDecl
    \/ SelectMain
    \/ ConfigCall
    \/ GenScalar
    \/ GenList
    \/ GenDictionary
    \/ GenClass
    \/ GenUnknown
    \/ ReturnToList
    \/ ReturnKey
    \/ ReturnValue
    \/ ReturnProp
    \/ ReturnToConfig

Spec == Init /\ [][Next]_vars

----------------------------------------------------------------------------
(* Properties of extract_class_body, under SpecBrace *)

RECURSIVE Count(_, _)
Count(s, c) ==
    IF s = <<>> THEN 0 ELSE (IF Head(s) = c THEN 1 ELSE 0) + Count(Tail(s), c)

\* the nesting depth after content[start_index:k], the opening brace before
\* start_index counted
DepthAt(k) ==
    LET scanned == SubSeq(content, start_index + 1, k)
    IN  1 + Count(scanned, "{") - Count(scanned, "}")

\* k (0-based) is the position of the brace closing the one before start_index
IsMatch(k) ==
    /\ k \in start_index..(Len(content) - 1)
    /\ content[k + 1] = "}"
    /\ DepthAt(k) = 1
    /\ \A j \in start_index..k : DepthAt(j) >= 1

HasMatch == \E k \in 0..(Len(content) - 1) : IsMatch(k)

MatchPos == CHOOSE k \in 0..(Len(content) - 1) : IsMatch(k)

\* C1: when the brace before start_index has a matching closing brace, the
\* body returned is exactly the text from start_index up to, and excluding,
\* that closing brace, and holds as many "{" as "}".
C1_BodyUpToMatchingBrace ==
    (bpc = "done" /\ HasMatch) =>
        /\ body = SubSeq(content, start_index + 1, MatchPos)
        /\ Count(body, "{") = Count(body, "}")

\* the spec's example: buffer {A{B}C}, start index 1, body A{B}C
C1_Witness ==
    /\ bpc = "done"
    /\ content = <<"{", "a", "{", "a", "}", "a", "}">>
    /\ start_index = 1
    /\ body = <<"a", "{", "a", "}", "a">>

\* C2 as stated: for balanced input the index returned is the index just
\* past the matching closing brace.
C2_IndexJustPastClosingBrace ==
    (bpc = "done" /\ HasMatch) => end_index = MatchPos + 1

\* C2 as amended: for balanced input the index returned is the position of
\* the matching closing brace itself (the exclusive end of the body).
C2_IndexOfClosingBrace ==
    (bpc = "done" /\ HasMatch) => end_index = MatchPos

\* a balanced class body followed by more text
C2_Witness ==
    /\ bpc = "done" /\ HasMatch
    /\ MatchPos + 1 < Len(content)
    /\ end_index = MatchPos

\* C3: when the buffer ends before the depth returns to 0, the body is the
\* whole text from start_index to the end of the buffer.
C3_UnbalancedKeepsAllText ==
    (bpc = "done" /\ ~HasMatch) =>
        body = SubSeq(content, start_index + 1, Len(content))

----------------------------------------------------------------------------
(* Properties of generate_sample_value, under SpecGen / FairSpecGen *)

Finished == pc \in {"done", "raised"}

\* frame i is a call on a class that a frame below it is expanding
OnPath(i) ==
    \E j \in 1..(i - 1) :
        /\ stack[j].fpc = "prop_wait"
        /\ stack[j].property_type = Normalize(stack[i].arg)

IsClassFrame(i) == IsClassType(Normalize(stack[i].arg), class_defs)

\* C4: on every registry, self- and mutually-referential ones included, the
\* call ends, it never exhausts the interpreter's stack, and every call on
\* a class that is being expanded on the current path is not expanded again
\* and returns the empty mapping.
C4_TerminatesAndCyclesAreEmpty ==
    /\ <>Finished
    /\ [](error # "RecursionError")
    /\ [](\A i \in 1..Len(stack) :
            (IsClassFrame(i) /\ OnPath(i)) =>
                /\ stack[i].fpc \in {"start", "return"}
                /\ stack[i].fpc = "return" => stack[i].result = EmptyMapping)

\* A is being expanded, B inside it, and B's property of type List<A> has
\* reached A again, which has just returned the empty mapping
C4_Witness ==
    /\ pc = "gen" /\ Len(stack) >= 4
    /\ stack[Len(stack) - 3].fpc = "prop_wait"
    /\ stack[Len(stack) - 3].property_type = ClassA
    /\ stack[Len(stack) - 2].fpc = "prop_wait"
    /\ stack[Len(stack) - 2].property_type = ClassB
    /\ Caller.fpc = "list_wait"
    /\ Normalize(Top.arg) = ClassA
    /\ Top.fpc = "return" /\ Top.result = EmptyMapping

\* C5: Dictionary<K, V> yields the one-entry mapping from the sample of K to
\* the sample of V, for every K and V tried, generic ones included.
C5_DictionarySample ==
    \A k \in KeyTypes, v \in ValueTypes :
        root = MkDict(k, v) =>
            /\ pc # "raised"
            /\ (stack # <<>> /\ stack[1].fpc \in {"key_wait", "value_wait", "return"}) =>
                    /\ stack[1].key_type = k
                    /\ stack[1].value_type = v
            /\ (stack # <<>> /\ stack[1].fpc = "return") =>
                    stack[1].result =
                        Mapping(<<[key |-> stack[1].key_sample,
                                   val |-> stack[1].value_sample]>>)

\* C6: sample generation never raises an error.
C6_NeverRaises == pc # "raised"

JsonNames(props) == {Scalar("str", props[i].json_property_name) : i \in 1..Len(props)}

\* C9: processed_classes holds exactly the classes being expanded on the
\* current path, so a return leaves it as the call found it, and a class
\* met again off that path (a second property of the same type) is fully
\* expanded: its sample has an entry for every one of its properties.
C9_VisitedSetPathScoped ==
    /\ processed_classes =
           {stack[i].property_type : i \in {j \in 1..Len(stack) : stack[j].fpc = "prop_wait"}}
    /\ \A i \in 1..Len(stack) :
           (IsClassFrame(i) /\ ~OnPath(i) /\ stack[i].fpc = "return") =>
               /\ stack[i].result.kind = "dict"
               /\ {e.key : e \in {stack[i].result.items[n] :
                                    n \in 1..Len(stack[i].result.items)}}
                      = JsonNames(Get(class_defs, stack[i].property_type))

\* class A has two properties of type B: the second B has just been
\* expanded, to the same non-empty mapping as the first
C9_Witness ==
    /\ pc = "gen" /\ Len(stack) >= 2
    /\ Caller.fpc = "prop_wait" /\ Caller.property_type = ClassA
    /\ Caller.i = 2
    /\ Caller.properties[1].property_type = ClassB
    /\ Caller.properties[2].property_type = ClassB
    /\ Top.fpc = "return"
    /\ Top.result.kind = "dict" /\ Top.result.items # <<>>
    /\ Caller.sample_obj[1].val = Top.result
    /\ processed_classes = {ClassA}

----------------------------------------------------------------------------
(* Properties of the registry, the choice of the main config class and     *)
(* generate_sample_config, under Spec                                      *)

\* the class name without its suffix "Config"
WithoutConfigSuffix(name) ==
    CHOOSE d \in {SubSeq(name, 1, n) : n \in 0..Len(name)} : d \o S_Config = name

\* C7: the type field is the class name without its suffix "Config" when
\* that name is a supported type or no type is supported, else the first
\* supported type; the envelope has the keys key, uid, name, type, group and
\* properties, and properties is the sample generate_sample_value returned
\* for the chosen class.
C7_EnvelopeTypeAndKeys ==
    pc = "done" =>
        /\ Len(config) = 1
        /\ DOMAIN config[1] = {"key", "uid", "name", "type", "group", "properties"}
        /\ config[1].type =
              IF WithoutConfigSuffix(main_config_class) \in Range(supported_types)
              THEN WithoutConfigSuffix(main_config_class)
              ELSE IF supported_types # <<>> THEN supported_types[1]
              ELSE WithoutConfigSuffix(main_config_class)
        /\ root = main_config_class
        /\ config[1].properties = ret
        /\ ret.kind = "dict"

\* WidgetConfig-like case: the derived name is not supported, so the type is
\* the first of two supported types
C7_Witness ==
    /\ pc = "done"
    /\ main_config_class = AConfig
    /\ supported_types = <<<<"X">>, <<"B">>>>
    /\ config[1].type = <<"X">>
    /\ config[1].properties.items # <<>>

\* the place of class c in the registry's order
Position(c) == CHOOSE i \in 1..Len(class_defs) : class_defs[i].key = c

IsConfigClass(c) == c \in Keys(class_defs) /\ EndsWith(c, S_Config)

\* C8: the class chosen is a registry class named ...Config with the most
\* properties among those, the first of them in the registry's order when
\* several have the most; with no such class none is chosen and no sample
\* config is produced.
C8_MainConfigClassChoice ==
    /\ pc \in {"config", "gen", "done"} =>
          /\ IsConfigClass(main_config_class)
          /\ \A c \in Keys(class_defs) :
                IsConfigClass(c) =>
                   /\ Len(Get(class_defs, c)) <= Len(Get(class_defs, main_config_class))
                   /\ Position(c) < Position(main_config_class) =>
                         Len(Get(class_defs, c)) < Len(Get(class_defs, main_config_class))
    /\ pc = "none" =>
          /\ ~\E c \in Keys(class_defs) : IsConfigClass(c)
          /\ main_config_class = <<>>
          /\ config = <<>>
    /\ (pc \notin {"parse", "none"}) => \E c \in Keys(class_defs) : IsConfigClass(c)

\* BConfig and AConfig both have one property, Dev has more: BConfig, first
\* in the registry, is chosen
C8_Witness ==
    /\ pc = "done"
    /\ Len(class_defs) = 3
    /\ class_defs[1].key = BConfig /\ Len(class_defs[1].val) = 1
    /\ class_defs[2].key = Dev /\ Len(class_defs[2].val) = 2
    /\ class_defs[3].key = AConfig /\ Len(class_defs[3].val) = 1
    /\ main_config_class = BConfig

\* C10: every class name maps to the property list of its last declaration,
\* whatever was declared for it before, and appears once in the registry.
C10_LastDeclarationWins ==
    /\ \A n \in MainClassNames :
          IF last_decl[n] = <<>>
          THEN n \notin Keys(class_defs)
          ELSE /\ n \in Keys(class_defs)
               /\ Get(class_defs, n) = last_decl[n][1]
    /\ \A i, j \in 1..Len(class_defs) :
          class_defs[i].key = class_defs[j].key => i = j

\* a declaration with no property has replaced one with MaxProps properties
C10_Witness ==
    /\ pc = "parse"
    /\ overwritten # <<>>
    /\ Len(overwritten[1].old) = MaxProps
    /\ Get(class_defs, overwritten[1].name) = <<>>

====
